---- MODULE Spec2Model ----
(***************************************************************************)
(* Vehicle stock ledger of backend-magazyn (app/routers/warehouse.py).     *)
(*                                                                         *)
(* The state is the content of the tables car_stock, stock_movements,     *)
(* stock_receive_headers and stock_receive_items (app/models.py), the     *)
(* last HTTP response, and the request-local state of the sessions that   *)
(* run issue_goods concurrently.  Quantities are Float columns; they are  *)
(* modelled by integers (whole units).                                     *)
(***************************************************************************)
EXTENDS Integers, Sequences, FiniteSets, TLC

VARIABLES
    car_stock,              \* set of CarStock rows
    car_stock_id,           \* next value of the car_stock.id sequence
    stock_movements,        \* sequence of StockMovement rows, in insert order
    stock_receive_headers,  \* sequence of StockReceiveHeader rows
    stock_receive_items,    \* sequence of StockReceiveItem rows
    resp,                   \* the request being answered and its HTTP response
    sess                    \* per concurrent session: the issue_goods call in progress

vars == <<car_stock, car_stock_id, stock_movements, stock_receive_headers,
          stock_receive_items, resp, sess>>

tables == <<car_stock, car_stock_id, stock_movements, stock_receive_headers,
            stock_receive_items>>

(***************************************************************************)
(* Bounds of the model.                                                    *)
(***************************************************************************)
\* the ledger holds at most MaxMoves rows: a call that would pass it is not made
MaxMoves == 2
\* at most MaxHeaders receipt headers are created
MaxHeaders == 1
\* the longest item list a request carries
MaxItems == 2

(***************************************************************************)
(* Users, vehicles, catalog.                                               *)
(***************************************************************************)
\* authenticated users (User.id)
Users == {1, 2}

\* User.car_plate
car_plate(u) == IF u = 1 THEN "A" ELSE "B"

Plates == {car_plate(u) : u \in Users}

\* ids of the rows of the products table
products == {1, 2}

\* product ids a request may carry: the catalog and one unknown id
ProductIds == products \cup {3}

\* place = None
None == "None"

\* the place strings a request may carry
Places == {"", "SiteA"}

(***************************************************************************)
(* Rows.                                                                   *)
(***************************************************************************)
CarStock(id, plate, product_id, quantity) ==
    [id |-> id, car_plate |-> plate, product_id |-> product_id, quantity |-> quantity]

\* the server time of the transaction that inserts the next movements
\* (timestamp = server_default func.now()): a logical clock, one tick per transaction
Now ==
    IF stock_movements = <<>> THEN 1
    ELSE stock_movements[Len(stock_movements)].timestamp + 1

StockMovement(u, product_id, quantity, type, place) ==
    [timestamp |-> Now, user_id |-> u, car_plate |-> car_plate(u),
     product_id |-> product_id, quantity |-> quantity, type |-> type, place |-> place]

\* car_stock rows of one (vehicle, product) pair
StockRows(table, plate, product_id) ==
    {r \in table : r.car_plate = plate /\ r.product_id = product_id}

\* (a variant that would be a bug: the handler does not look the product up)
product_Unchecked(product_id) == TRUE

\* product = db.query(models.Product).filter_by(id=product_id).first() finds a row
product(product_id) == product_id \in products

\* (a variant that would be a bug: the statements already executed are kept, as
\* with a session in autocommit mode)
close_KeepsExecuted(persisted, executed) == executed

\* db.close() in get_db, when the handler raised before its commit succeeded: the
\* transaction is rolled back and the table is as it was persisted, whatever
\* statements the handler had executed on it
close(persisted, executed) == persisted

\* no request is being served
NoResponse ==
    [op |-> "none", user |-> 0, req |-> <<>>, status |-> 0, detail |-> "", result |-> <<>>]

\* the request of user u being answered and its HTTP response: status code, detail
\* of the error and, for the calls that return data, the body
Respond(op, u, req, status, detail, result) ==
    resp' = [op |-> op, user |-> u, req |-> req, status |-> status, detail |-> detail,
             result |-> result]

(***************************************************************************)
(* POST /warehouse/receive                                                 *)
(***************************************************************************)
\* ReceiveRequest: quantity: float = Field(gt=0)
ReceiveRequest(req) == req.quantity > 0

\* (a variant that would be a bug: stock.quantity = req.quantity)
ReceiveQuantity_Overwrite(stock, req) == req.quantity

\* the quantity of the row found, after stock.quantity += req.quantity
ReceiveQuantity(stock, req) == stock.quantity + req.quantity

\* the movement receive_goods adds
ReceiveMovement(u, req) == StockMovement(u, req.product_id, req.quantity, "IN", None)

receive_goods(u, req) ==
    /\ resp = NoResponse
    /\ UNCHANGED <<stock_receive_headers, stock_receive_items, sess>>
    /\ IF ~ReceiveRequest(req)
       THEN /\ Respond("receive", u, req, 422, "validation", <<>>)
            /\ UNCHANGED <<car_stock, car_stock_id, stock_movements>>
       ELSE IF ~product(req.product_id)
       THEN /\ Respond("receive", u, req, 404, "Produkt nie istnieje", <<>>)
            /\ UNCHANGED <<car_stock, car_stock_id, stock_movements>>
       ELSE /\ Len(stock_movements) < MaxMoves
            /\ LET rows == StockRows(car_stock, car_plate(u), req.product_id)
               IN  IF rows = {}
                   THEN /\ car_stock' = car_stock \cup
                               {CarStock(car_stock_id, car_plate(u), req.product_id, req.quantity)}
                        /\ car_stock_id' = car_stock_id + 1
                   ELSE /\ \E stock \in rows :      \* .first(): any matching row
                               car_stock' = (car_stock \ {stock}) \cup
                                   {[stock EXCEPT !.quantity = ReceiveQuantity(stock, req)]}
                        /\ car_stock_id' = car_stock_id
            /\ stock_movements' = Append(stock_movements, ReceiveMovement(u, req))
            /\ Respond("receive", u, req, 200, "OK", <<>>)

(***************************************************************************)
(* POST /warehouse/issue                                                   *)
(***************************************************************************)
\* (a variant that would be a bug: quantity: float, without Field(gt=0))
IssueRequest_Unchecked(req) == TRUE

\* IssueRequest: quantity: float = Field(gt=0); place: str
IssueRequest(req) == req.quantity > 0

\* (a variant that would be a bug: no stock check)
IssueAllowed_Always(stock, req) == TRUE

\* (a variant that would be a bug: the check asks only for some stock)
IssueAllowed_AnyStock(stock, req) == ~(stock.quantity <= 0)

\* the stock check: the call goes on unless stock.quantity < req.quantity
IssueAllowed(stock, req) == ~(stock.quantity < req.quantity)

\* the quantity of the row found, after stock.quantity -= req.quantity
IssueQuantity(stock, req) == stock.quantity - req.quantity

\* (a variant that would be a bug: quantity=req.quantity)
IssueMovement_Unsigned(u, req) ==
    StockMovement(u, req.product_id, req.quantity, "OUT", req.place)

\* the movement issue_goods adds
IssueMovement(u, req) == StockMovement(u, req.product_id, -req.quantity, "OUT", req.place)

issue_goods(u, req) ==
    /\ resp = NoResponse
    /\ UNCHANGED <<stock_receive_headers, stock_receive_items, sess, car_stock_id>>
    /\ IF ~IssueRequest(req)
       THEN /\ Respond("issue", u, req, 422, "validation", <<>>)
            /\ UNCHANGED <<car_stock, stock_movements>>
       ELSE IF ~product(req.product_id)
       THEN /\ Respond("issue", u, req, 404, "Produkt nie istnieje", <<>>)
            /\ UNCHANGED <<car_stock, stock_movements>>
       ELSE LET rows == StockRows(car_stock, car_plate(u), req.product_id)
            IN  IF rows = {}
                THEN /\ Respond("issue", u, req, 400, "Brak produktu w aucie", <<>>)
                     /\ UNCHANGED <<car_stock, stock_movements>>
                ELSE \E stock \in rows :            \* .first(): any matching row
                        IF ~IssueAllowed(stock, req)
                        THEN /\ Respond("issue", u, req, 400, "Dostepne tylko", stock.quantity)
                             /\ UNCHANGED <<car_stock, stock_movements>>
                        ELSE /\ Len(stock_movements) < MaxMoves
                             /\ car_stock' = (car_stock \ {stock}) \cup
                                    {[stock EXCEPT !.quantity = IssueQuantity(stock, req)]}
                             /\ stock_movements' = Append(stock_movements, IssueMovement(u, req))
                             /\ Respond("issue", u, req, 200, "OK", <<>>)

(***************************************************************************)
(* issue_goods served by concurrent sessions.  Each session has its own    *)
(* SQLAlchemy Session (get_db) and its own transaction; the database runs  *)
(* them at its default isolation level (read committed), with no lock      *)
(* taken by the code.  A call is three steps: the two queries; the stock   *)
(* check and the change of the loaded object in memory; the commit, which  *)
(* flushes the UPDATE of the row and the INSERT of the movement.           *)
(***************************************************************************)
Sessions == {1, 2}

\* stock = None: .first() found no row
NoRow == CarStock(0, "", 0, 0)

IdleSession == [pc |-> "idle", user |-> 0, req |-> <<>>, stock |-> NoRow, status |-> 0]

\* the session has answered its call
Answered(u, req, status) ==
    [pc |-> "done", user |-> u, req |-> req, stock |-> NoRow, status |-> status]

\* the product query and the stock query
issue_read(s, u, req) ==
    /\ sess[s].pc = "idle"
    /\ UNCHANGED <<tables, resp>>
    /\ IF ~IssueRequest(req)
       THEN sess' = [sess EXCEPT ![s] = Answered(u, req, 422)]
       ELSE IF ~product(req.product_id)
       THEN sess' = [sess EXCEPT ![s] = Answered(u, req, 404)]
       ELSE LET rows == StockRows(car_stock, car_plate(u), req.product_id)
            IN  IF rows = {}
                THEN sess' = [sess EXCEPT ![s] =
                         [pc |-> "read", user |-> u, req |-> req, stock |-> NoRow,
                          status |-> 0]]
                ELSE \E stock \in rows :           \* .first(): any matching row
                         sess' = [sess EXCEPT ![s] =
                             [pc |-> "read", user |-> u, req |-> req, stock |-> stock,
                              status |-> 0]]

\* the stock check, and stock.quantity -= req.quantity on the object the session loaded
issue_check(s) ==
    /\ sess[s].pc = "read"
    /\ UNCHANGED <<tables, resp>>
    /\ IF sess[s].stock = NoRow
       THEN sess' = [sess EXCEPT ![s] = Answered(sess[s].user, sess[s].req, 400)]
       ELSE IF ~IssueAllowed(sess[s].stock, sess[s].req)
       THEN sess' = [sess EXCEPT ![s] = Answered(sess[s].user, sess[s].req, 400)]
       ELSE sess' = [sess EXCEPT ![s].pc = "checked",
                                 ![s].stock.quantity = IssueQuantity(sess[s].stock, sess[s].req)]

\* db.add(move); db.commit(): UPDATE car_stock SET quantity = <the quantity computed
\* in memory> WHERE id = <the row loaded>, INSERT of the movement, COMMIT
issue_commit(s) ==
    /\ sess[s].pc = "checked"
    /\ UNCHANGED <<car_stock_id, stock_receive_headers, stock_receive_items, resp>>
    /\ car_stock' = {IF r.id = sess[s].stock.id
                        THEN [r EXCEPT !.quantity = sess[s].stock.quantity]
                        ELSE r : r \in car_stock}
    /\ stock_movements' = Append(stock_movements, IssueMovement(sess[s].user, sess[s].req))
    /\ sess' = [sess EXCEPT ![s] = Answered(sess[s].user, sess[s].req, 200)]

(***************************************************************************)
(* POST /warehouse/update-car-state                                        *)
(***************************************************************************)
\* UpdateCarStateItemDto: quantity: float = Field(ge=0), for every item
UpdateCarStateRequestDto(req) ==
    \A i \in DOMAIN req.items : req.items[i].quantity >= 0

\* an item is inserted unless item.quantity <= 0 (continue)
ResetKept(item) == ~(item.quantity <= 0)

\* the items of the request that are inserted, in request order
ResetItems(req) == SelectSeq(req.items, ResetKept)

\* (a variant that would be a bug: the rows of the vehicle are not deleted)
ResetDelete_KeepsRows(table, plate) == table

\* (a variant that would be a bug: the delete has no filter on car_plate)
ResetDelete_AllVehicles(table, plate) == {}

\* car_stock after the delete of the vehicle's rows
ResetDelete(table, plate) == {r \in table : r.car_plate # plate}

\* the rows update_car_state adds: one per inserted item
ResetRows(u, req) ==
    LET kept == ResetItems(req)
    IN  {CarStock(car_stock_id + i - 1, car_plate(u), kept[i].product_id, kept[i].quantity) :
            i \in DOMAIN kept}

\* the movements update_car_state adds: one per inserted item
ResetMovements(u, req) ==
    LET kept == ResetItems(req)
    IN  [i \in DOMAIN kept |->
            StockMovement(u, kept[i].product_id, kept[i].quantity, "IN", None)]

\* (a variant that would be a bug: the reset also deletes the vehicle's movements)
ResetLedger_ClearsVehicle(u, req) ==
    LET other(m) == m.car_plate # car_plate(u)
    IN  SelectSeq(stock_movements, other) \o ResetMovements(u, req)

\* the ledger after update_car_state
ResetLedger(u, req) == stock_movements \o ResetMovements(u, req)

\* ForeignKey("products.id") of car_stock.product_id and stock_movements.product_id,
\* checked by the database when the commit flushes the inserts
ForeignKeysHold(rows) == \A r \in rows : r.product_id \in products

update_car_state(u, req) ==
    /\ resp = NoResponse
    /\ UNCHANGED <<stock_receive_headers, stock_receive_items, sess>>
    /\ IF ~UpdateCarStateRequestDto(req)
       THEN /\ Respond("update_car_state", u, req, 422, "validation", <<>>)
            /\ UNCHANGED <<car_stock, car_stock_id, stock_movements>>
       ELSE IF ~ForeignKeysHold(ResetRows(u, req))
       THEN \* the commit raises IntegrityError: the transaction, delete included, is rolled back
            /\ Respond("update_car_state", u, req, 500, "IntegrityError", <<>>)
            /\ car_stock' = close(car_stock, ResetDelete(car_stock, car_plate(u)))
            /\ UNCHANGED <<car_stock_id, stock_movements>>
       ELSE /\ Len(stock_movements) + Len(ResetItems(req)) <= MaxMoves
            /\ car_stock' = ResetDelete(car_stock, car_plate(u)) \cup ResetRows(u, req)
            /\ car_stock_id' = car_stock_id + Len(ResetItems(req))
            /\ stock_movements' = ResetLedger(u, req)
            /\ Respond("update_car_state", u, req, 200, "OK", <<>>)

(***************************************************************************)
(* POST /warehouse/receive-document                                        *)
(***************************************************************************)
\* GoodsReceiptItemDto: quantity: float = Field(gt=0), for every item
GoodsReceiptRequestDto(req) ==
    \A i \in DOMAIN req.items : req.items[i].quantity > 0

\* date.fromisoformat(req.document_date) succeeds: the string is YYYY-MM-DD, given
\* here as its three fields, and names a day of the calendar
DaysInMonth(y, m) ==
    IF m = 2 THEN (IF y % 4 = 0 /\ (y % 100 # 0 \/ y % 400 = 0) THEN 29 ELSE 28)
    ELSE IF m \in {4, 6, 9, 11} THEN 30 ELSE 31

fromisoformat(d) ==
    /\ Len(d) = 3
    /\ d[1] \in 1..9999
    /\ d[2] \in 1..12
    /\ d[3] \in 1..DaysInMonth(d[1], d[2])

StockReceiveHeader(id, u, req) ==
    [id |-> id, document_date |-> req.document_date, car_plate |-> car_plate(u),
     user_id |-> u]

StockReceiveItem(header_id, item) ==
    [header_id |-> header_id, product_id |-> item.product_id, quantity |-> item.quantity]

\* (a variant that would be a bug: stock.quantity = item.quantity)
ReceiptQuantity_Overwrite(stock, item) == item.quantity

\* the quantity of the row found, after stock.quantity += item.quantity
ReceiptQuantity(stock, item) == stock.quantity + item.quantity

\* the movement create_goods_receipt adds for an item
ReceiptMovement(u, item) == StockMovement(u, item.product_id, item.quantity, "IN", None)

\* The session of create_goods_receipt while the loop over req.items runs:
\*   stock:   the car_stock rows of the database, with the changes made in memory
\*            to the rows the loop has loaded (stock.quantity += ...);
\*   pending: the CarStock objects added to the session and not yet flushed. The
\*            session is made with autoflush=False, so the queries of the loop do
\*            not see them;
\*   items, moves: the StockReceiveItem and StockMovement objects added;
\*   ok:      FALSE once an item named an unknown product (HTTPException 404).
\* The operator gives every session the loop can end in, from item i on.
RECURSIVE ReceiptLoop(_, _, _, _, _)
ReceiptLoop(u, header_id, items, i, st) ==
    IF i > Len(items) THEN {st}
    ELSE IF ~product(items[i].product_id)
    THEN {[st EXCEPT !.ok = FALSE, !.failed = items[i].product_id]}
    ELSE LET item == items[i]
             rows == StockRows(st.stock, car_plate(u), item.product_id)
             added == [st EXCEPT
                          !.items = Append(@, StockReceiveItem(header_id, item)),
                          !.moves = Append(@, ReceiptMovement(u, item))]
         IN  IF rows = {}
             THEN ReceiptLoop(u, header_id, items, i + 1,
                      [added EXCEPT !.pending = Append(@, item)])
             ELSE UNION {ReceiptLoop(u, header_id, items, i + 1,
                            [added EXCEPT !.stock = (@ \ {stock}) \cup
                                {[stock EXCEPT !.quantity = ReceiptQuantity(stock, item)]}]) :
                         stock \in rows}          \* .first(): any matching row

\* the rows the final commit inserts for the pending CarStock objects
ReceiptRows(u, pending) ==
    {CarStock(car_stock_id + i - 1, car_plate(u), pending[i].product_id, pending[i].quantity) :
        i \in DOMAIN pending}

create_goods_receipt(u, req) ==
    /\ resp = NoResponse
    /\ UNCHANGED sess
    /\ IF ~GoodsReceiptRequestDto(req)
       THEN /\ Respond("create_goods_receipt", u, req, 422, "validation", <<>>)
            /\ UNCHANGED tables
       ELSE IF ~fromisoformat(req.document_date)
       THEN /\ Respond("create_goods_receipt", u, req, 400, "Nieprawidlowy format daty", <<>>)
            /\ UNCHANGED tables
       ELSE /\ Len(stock_receive_headers) < MaxHeaders
            /\ Len(stock_movements) + Len(req.items) <= MaxMoves
            /\ LET header_id == Len(stock_receive_headers) + 1
                   start == [stock |-> car_stock, pending |-> <<>>, items |-> <<>>,
                             moves |-> <<>>, ok |-> TRUE, failed |-> 0]
               IN  \* db.add(header); db.commit(): the header is persisted here
                   /\ stock_receive_headers' =
                          Append(stock_receive_headers, StockReceiveHeader(header_id, u, req))
                   /\ \E st \in ReceiptLoop(u, header_id, req.items, 1, start) :
                          IF ~st.ok
                          THEN \* HTTPException: the session is closed, what it holds is lost
                               /\ Respond("create_goods_receipt", u, req, 404,
                                          "Produkt nie istnieje", st.failed)
                               /\ UNCHANGED <<car_stock, car_stock_id, stock_movements,
                                              stock_receive_items>>
                          ELSE /\ car_stock' = st.stock \cup ReceiptRows(u, st.pending)
                               /\ car_stock_id' = car_stock_id + Len(st.pending)
                               /\ stock_movements' = stock_movements \o st.moves
                               /\ stock_receive_items' = stock_receive_items \o st.items
                               /\ Respond("create_goods_receipt", u, req, 200, "OK", header_id)

(***************************************************************************)
(* GET /warehouse/car/state, GET /warehouse/history                        *)
(***************************************************************************)
\* the sequences that list the rows of the set S once each
Orderings(S) ==
    {f \in [1..Cardinality(S) -> S] : \A i, j \in DOMAIN f : i # j => f[i] # f[j]}

\* ORDER BY products.id
ByProductId(a, b) == a.product_id <= b.product_id

\* the lists get_car_state may return: the vehicle's rows joined with their
\* product, ordered by product id
CarState(table, plate) ==
    LET rows == {r \in table : r.car_plate = plate /\ r.product_id \in products}
        item(f) == [i \in DOMAIN f |->
                       [product_id |-> f[i].product_id, quantity |-> f[i].quantity]]
    IN  {item(f) : f \in {g \in Orderings(rows) :
                              \A i, j \in DOMAIN g : i < j => ByProductId(g[i], g[j])}}

get_car_state(u) ==
    /\ resp = NoResponse
    /\ UNCHANGED <<tables, sess>>
    /\ \E rows \in CarState(car_stock, car_plate(u)) :
           Respond("get_car_state", u, <<>>, 200, "OK", rows)

\* ORDER BY stock_movements.timestamp DESC
ByTimestampDesc(a, b) == a.timestamp >= b.timestamp

\* an Optional query parameter: <<>> when the request does not carry it (None),
\* <<v>> when it carries the value v.  `if product_id:` and `if type:` hold when
\* the parameter is given and is not 0, not ""
Truthy(param, falsy) == param # <<>> /\ param[1] # falsy

\* (a variant that would be a bug: no filter on the caller's car_plate)
HistoryMatches_AnyVehicle(m, plate, req) ==
    /\ m.product_id \in products
    /\ (Truthy(req.product_id, 0) => m.product_id = req.product_id[1])
    /\ (Truthy(req.type, "") => m.type = req.type[1])
    /\ (req.date_from # 0 => m.timestamp >= req.date_from)
    /\ (req.date_to # 0 => m.timestamp <= req.date_to)

\* the filters of history: each is applied when its parameter is truthy (for the
\* two dates, 0 stands for a parameter that is not given)
HistoryMatches(m, plate, req) ==
    /\ m.car_plate = plate
    /\ m.product_id \in products
    /\ (Truthy(req.product_id, 0) => m.product_id = req.product_id[1])
    /\ (Truthy(req.type, "") => m.type = req.type[1])
    /\ (req.date_from # 0 => m.timestamp >= req.date_from)
    /\ (req.date_to # 0 => m.timestamp <= req.date_to)

\* the lists history may return; a movement is listed with its id
History(plate, req) ==
    LET rows == {[id |-> i, timestamp |-> stock_movements[i].timestamp,
                  product_id |-> stock_movements[i].product_id,
                  quantity |-> stock_movements[i].quantity,
                  type |-> stock_movements[i].type,
                  place |-> stock_movements[i].place] :
                 i \in {j \in DOMAIN stock_movements :
                           HistoryMatches(stock_movements[j], plate, req)}}
    IN  {f \in Orderings(rows) :
            \A i, j \in DOMAIN f : i < j => ByTimestampDesc(f[i], f[j])}

history(u, req) ==
    /\ resp = NoResponse
    /\ UNCHANGED <<tables, sess>>
    /\ \E rows \in History(car_plate(u), req) :
           Respond("history", u, req, 200, "OK", rows)

\* the response has been sent and the session of the request closed
send_response ==
    /\ resp # NoResponse
    /\ resp' = NoResponse
    /\ UNCHANGED <<tables, sess>>

(***************************************************************************)
(* Requests.                                                               *)
(***************************************************************************)
\* the lists of at most MaxItems items
ItemLists(S) == UNION {[1..n -> S] : n \in 0..MaxItems}

\* the quantities a valid request carries
Quantities == {1, 2}

Item(product_id, quantity) == [product_id |-> product_id, quantity |-> quantity]

\* receive and issue: the valid quantities and a quantity the DTO rejects
QuantityInputs == Quantities \cup {0}

\* update-car-state items: known products, an unknown product, a zero quantity
\* (skipped) and a negative one (rejected by the DTO)
ResetItemInputs ==
    [product_id : products, quantity : Quantities] \cup {Item(3, 1), Item(1, 0), Item(1, -1)}

\* receive-document items: known products, an unknown product and a quantity
\* the DTO rejects
ReceiptItemInputs ==
    [product_id : products, quantity : Quantities] \cup {Item(3, 1), Item(1, 0)}

\* document_date: 2024-01-05 and 2024-13-05
Dates == {<<2024, 1, 5>>, <<2024, 13, 5>>}

\* history: each of product_id and type not given, given with a falsy value (0, "")
\* and given with a value that rows have
HistoryInputs ==
    [product_id : {<<>>, <<0>>, <<1>>}, type : {<<>>, <<"">>, <<"OUT">>},
     date_from : {0, 2}, date_to : {0, 1}]

(***************************************************************************)
(* Specification: the requests are served one at a time.                   *)
(***************************************************************************)
Init ==
    /\ car_stock = {}
    /\ car_stock_id = 1
    /\ stock_movements = <<>>
    /\ stock_receive_headers = <<>>
    /\ stock_receive_items = <<>>
    /\ resp = NoResponse
    /\ sess = [s \in Sessions |-> IdleSession]

Receive ==
    \E u \in Users, p \in ProductIds, q \in QuantityInputs :
        receive_goods(u, [product_id |-> p, quantity |-> q])

Issue ==
    \E u \in Users, p \in ProductIds, q \in QuantityInputs, pl \in Places :
        issue_goods(u, [product_id |-> p, quantity |-> q, place |-> pl])

Reset ==
    \E u \in Users, items \in ItemLists(ResetItemInputs) :
        update_car_state(u, [items |-> items])

ReceiptDocument ==
    \E u \in Users, d \in Dates, items \in ItemLists(ReceiptItemInputs) :
        create_goods_receipt(u, [document_date |-> d, items |-> items])

CarStateQuery == \E u \in Users : get_car_state(u)

HistoryQuery == \E u \in Users, req \in HistoryInputs : history(u, req)

Next ==
    \/ Receive
    \/ Issue
    \/ Reset
    \/ ReceiptDocument
    \/ CarStateQuery
    \/ HistoryQuery
    \/ send_response

Spec == Init /\ [][Next]_vars

(***************************************************************************)
(* Specification of concurrent issues: the stock is first built by Receive *)
(* calls, served one at a time; then each session serves one Issue call,   *)
(* the steps of the two calls interleaved in any order.                    *)
(***************************************************************************)
ReceiveBeforeIssues ==
    /\ \A s \in Sessions : sess[s].pc = "idle"
    /\ Receive

IssueRead ==
    /\ resp = NoResponse       \* the Receive calls have been answered
    /\ \E s \in Sessions, u \in Users, p \in ProductIds, q \in QuantityInputs, pl \in Places :
        issue_read(s, u, [product_id |-> p, quantity |-> q, place |-> pl])

IssueCheck == \E s \in Sessions : issue_check(s)

IssueCommit == \E s \in Sessions : issue_commit(s)

NextConcurrent ==
    \/ ReceiveBeforeIssues
    \/ send_response
    \/ IssueRead
    \/ IssueCheck
    \/ IssueCommit

SpecConcurrent == Init /\ [][NextConcurrent]_vars

(***************************************************************************)
(* Vocabulary of the properties.                                           *)
(***************************************************************************)
RECURSIVE SumQuantity(_)
SumQuantity(rows) ==
    IF rows = {} THEN 0
    ELSE LET r == CHOOSE x \in rows : TRUE
         IN  r.quantity + SumQuantity(rows \ {r})

\* the snapshot quantity of a (vehicle, product) pair; a missing row counts as 0
SnapshotQuantity(table, plate, product_id) ==
    SumQuantity(StockRows(table, plate, product_id))

\* the call answered in r is op, and it succeeded
Succeeded(r, op) == r.op = op /\ r.status = 200

\* the ledger l2 is the ledger l1 with n rows added at its end
Extends(l1, l2, n) == Len(l2) = Len(l1) + n /\ SubSeq(l2, 1, Len(l1)) = l1

\* what a movement says, without its server-assigned timestamp
Entry(m) ==
    [user_id |-> m.user_id, car_plate |-> m.car_plate, product_id |-> m.product_id,
     quantity |-> m.quantity, type |-> m.type, place |-> m.place]

ExpectedEntry(u, product_id, quantity, type, place) ==
    [user_id |-> u, car_plate |-> car_plate(u), product_id |-> product_id,
     quantity |-> quantity, type |-> type, place |-> place]

NonZero(item) == item.quantity # 0

(***************************************************************************)
(* C1. Every Receive or Issue call changes the snapshot quantity of each   *)
(* (vehicle, product) pair by the signed delta it applied: +qty for a      *)
(* Receive that succeeded on the pair, -qty for an Issue that succeeded on *)
(* it, 0 for a failed call and for every other pair; and the quantity it   *)
(* leaves is never negative.  From a pair without a row (quantity 0) the   *)
(* quantity after any sequence of such calls is therefore the sum of the   *)
(* deltas of the calls that succeeded.                                     *)
(***************************************************************************)
AppliedDelta(r, plate, product_id) ==
    IF r.status = 200 /\ car_plate(r.user) = plate /\ r.req.product_id = product_id
    THEN (IF r.op = "receive" THEN r.req.quantity ELSE -r.req.quantity)
    ELSE 0

C1_SnapshotIsSumOfDeltas ==
    [][resp'.op \in {"receive", "issue"} =>
          \A plate \in Plates, p \in ProductIds :
              /\ SnapshotQuantity(car_stock', plate, p) =
                     SnapshotQuantity(car_stock, plate, p) + AppliedDelta(resp', plate, p)
              /\ SnapshotQuantity(car_stock', plate, p) >= 0]_vars

\* Receive(2) then Issue(1) on a fresh pair: the ledger holds +2, -1 and the row 1
C1_Witness ==
    /\ Succeeded(resp, "issue")
    /\ Len(stock_movements) = 2
    /\ stock_movements[1].type = "IN" /\ stock_movements[1].quantity = 2
    /\ stock_movements[1].car_plate = car_plate(resp.user)
    /\ stock_movements[1].product_id = resp.req.product_id
    /\ resp.req.quantity = 1
    /\ SnapshotQuantity(car_stock, car_plate(resp.user), resp.req.product_id) = 1

(***************************************************************************)
(* C2. Every existing car_stock row has quantity >= 0, whatever sequence   *)
(* of Receive, Issue, Reset and Receipt Document calls was served.         *)
(***************************************************************************)
C2_QuantityNonNegative == \A r \in car_stock : r.quantity >= 0

\* an Issue of the whole stock has left a row of quantity 0
C2_Witness ==
    /\ Succeeded(resp, "issue")
    /\ \E r \in StockRows(car_stock, car_plate(resp.user), resp.req.product_id) :
           r.quantity = 0

(***************************************************************************)
(* C3. As claimed: an Issue (of a quantity > 0) fails with                 *)
(* InsufficientStock (HTTP 400) whenever the pair has no row or the        *)
(* quantity asked exceeds the snapshot quantity, and leaves the tables     *)
(* unchanged.  It does not hold: for an unknown product the pair has no    *)
(* row and the call fails with NotFound (404).                             *)
(***************************************************************************)
Insufficient(plate, req) ==
    \/ StockRows(car_stock, plate, req.product_id) = {}
    \/ req.quantity > SnapshotQuantity(car_stock, plate, req.product_id)

C3_Original ==
    [][(resp'.op = "issue" /\ resp'.req.quantity > 0
            /\ Insufficient(car_plate(resp'.user), resp'.req))
          => (resp'.status = 400 /\ UNCHANGED tables)]_vars

(***************************************************************************)
(* C3, amended. An Issue (of a quantity > 0) of a product of the catalog   *)
(* fails with InsufficientStock (HTTP 400) whenever the pair has no row or *)
(* the quantity asked exceeds the snapshot quantity; the failed call       *)
(* leaves the snapshot rows and the ledger exactly as they were.           *)
(***************************************************************************)
C3_IssueInsufficientStock ==
    [][(resp'.op = "issue" /\ resp'.req.quantity > 0
            /\ resp'.req.product_id \in products
            /\ Insufficient(car_plate(resp'.user), resp'.req))
          => (resp'.status = 400 /\ UNCHANGED tables)]_vars

\* an Issue of more than the row holds was refused, the row still holding its quantity
C3_Witness ==
    /\ resp.op = "issue" /\ resp.status = 400 /\ resp.detail = "Dostepne tylko"
    /\ StockRows(car_stock, car_plate(resp.user), resp.req.product_id) # {}
    /\ resp.req.quantity >
           SnapshotQuantity(car_stock, car_plate(resp.user), resp.req.product_id)
    /\ resp.result = SnapshotQuantity(car_stock, car_plate(resp.user), resp.req.product_id)

(***************************************************************************)
(* C4. After a successful Reset the rows of the vehicle are exactly the    *)
(* supplied pairs of non-zero quantity, one row per supplied pair: no row  *)
(* that existed before the call remains, and the list get_car_state        *)
(* returns right after holds precisely those pairs.                        *)
(***************************************************************************)
\* how many of the items are the pair (product_id, quantity), zero quantities left out
Supplied(items, product_id, quantity) ==
    Cardinality({i \in DOMAIN items :
        NonZero(items[i]) /\ items[i].product_id = product_id
            /\ items[i].quantity = quantity})

\* how many of the rows of a list are the pair (product_id, quantity)
Listed(list, product_id, quantity) ==
    Cardinality({i \in DOMAIN list :
        list[i].product_id = product_id /\ list[i].quantity = quantity})

C4_ResetReplacesState ==
    [][Succeeded(resp', "update_car_state") =>
          LET plate == car_plate(resp'.user)
              items == resp'.req.items
              before == {r \in car_stock : r.car_plate = plate}
              after == {r \in car_stock' : r.car_plate = plate}
          IN  /\ \A r \in after : r.id \notin {b.id : b \in before}
              /\ \A r \in after : Supplied(items, r.product_id, r.quantity) > 0
              /\ \A i \in DOMAIN items :
                     Cardinality({r \in after : r.product_id = items[i].product_id
                                                  /\ r.quantity = items[i].quantity})
                         = Supplied(items, items[i].product_id, items[i].quantity)
              /\ \A list \in CarState(car_stock', plate) :
                     /\ Len(list) = Cardinality(after)
                     /\ \A i \in DOMAIN list :
                            Listed(list, list[i].product_id, list[i].quantity) =
                                Supplied(items, list[i].product_id, list[i].quantity)
                     /\ \A i \in DOMAIN items :
                            Listed(list, items[i].product_id, items[i].quantity) =
                                Supplied(items, items[i].product_id, items[i].quantity)]_vars

\* a Reset with a zero item and a kept item has removed the row of a product that the
\* vehicle had received before and that the list does not name
C4_Witness ==
    /\ Succeeded(resp, "update_car_state")
    /\ \E i, j \in DOMAIN resp.req.items :
           ~NonZero(resp.req.items[i]) /\ NonZero(resp.req.items[j])
    /\ \E k \in DOMAIN stock_movements :
           /\ stock_movements[k].car_plate = car_plate(resp.user)
           /\ stock_movements[k].timestamp < stock_movements[Len(stock_movements)].timestamp
           /\ \A i \in DOMAIN resp.req.items :
                  resp.req.items[i].product_id # stock_movements[k].product_id
           /\ StockRows(car_stock, car_plate(resp.user), stock_movements[k].product_id) = {}

(***************************************************************************)
(* C5. As claimed: there is at most one car_stock row per (vehicle plate,  *)
(* product id) pair in every reachable state.  The code breaks it: the     *)
(* table has no unique constraint and a Reset (or a Receipt Document on a  *)
(* pair without a row) that names a product twice inserts two rows.        *)
(***************************************************************************)
C5_OneRowPerPair ==
    \A plate \in Plates, p \in ProductIds :
        Cardinality(StockRows(car_stock, plate, p)) <= 1

(***************************************************************************)
(* C6. Every successful call adds exactly the expected movements at the    *)
(* end of the ledger and no others: Receive one {IN, +qty}; Issue one      *)
(* {OUT, -qty, the given place}; Reset one IN per item of non-zero         *)
(* quantity and none for the products it removed; Receipt Document one IN  *)
(* per item.                                                               *)
(***************************************************************************)
ExpectedMovements(r) ==
    IF r.op = "receive"
    THEN <<ExpectedEntry(r.user, r.req.product_id, r.req.quantity, "IN", None)>>
    ELSE IF r.op = "issue"
    THEN <<ExpectedEntry(r.user, r.req.product_id, -r.req.quantity, "OUT", r.req.place)>>
    ELSE IF r.op = "update_car_state"
    THEN LET kept == SelectSeq(r.req.items, NonZero)
         IN  [i \in DOMAIN kept |->
                 ExpectedEntry(r.user, kept[i].product_id, kept[i].quantity, "IN", None)]
    ELSE [i \in DOMAIN r.req.items |->
             ExpectedEntry(r.user, r.req.items[i].product_id, r.req.items[i].quantity,
                           "IN", None)]

C6_ExpectedMovementsAppended ==
    [][(resp'.status = 200 /\ resp'.op \in
            {"receive", "issue", "update_car_state", "create_goods_receipt"}) =>
          LET expected == ExpectedMovements(resp')
              n == Len(stock_movements)
          IN  /\ Extends(stock_movements, stock_movements', Len(expected))
              /\ \A i \in DOMAIN expected :
                     Entry(stock_movements'[n + i]) = expected[i]]_vars

\* a Receipt Document of two items has added its two IN movements
C6_Witness ==
    /\ Succeeded(resp, "create_goods_receipt")
    /\ Len(resp.req.items) = 2
    /\ Len(stock_movements) = 2
    /\ \A i \in 1..2 : stock_movements[i].type = "IN"
                          /\ stock_movements[i].user_id = resp.user

(***************************************************************************)
(* C7. The ledger is append-only: whatever the service does (a call that   *)
(* succeeds or fails, a query), every movement that existed before is      *)
(* still there afterwards, at its place and with identical fields.         *)
(***************************************************************************)
C7_LedgerAppendOnly ==
    [][/\ Len(stock_movements') >= Len(stock_movements)
       /\ SubSeq(stock_movements', 1, Len(stock_movements)) = stock_movements]_vars

\* a Reset of a vehicle whose ledger already held a movement: the movement is still there
C7_Witness ==
    /\ Succeeded(resp, "update_car_state")
    /\ Len(stock_movements) = 2
    /\ stock_movements[1].car_plate = car_plate(resp.user)
    /\ stock_movements[1].timestamp < stock_movements[2].timestamp
    /\ StockRows(car_stock, car_plate(resp.user), stock_movements[1].product_id) = {}

(***************************************************************************)
(* C8. As claimed: a Receipt Document call that fails with NotFound (an    *)
(* item names an unknown product) leaves nothing behind: no header, no     *)
(* item, no snapshot change, no movement.  The code breaks it: the header  *)
(* is committed before the items are looked at and stays.                  *)
(***************************************************************************)
C8_ReceiptAllOrNothing ==
    [][(resp'.op = "create_goods_receipt" /\ resp'.status = 404) =>
          UNCHANGED tables]_vars

(***************************************************************************)
(* C10. Every movement obeys the sign rule: an OUT movement has a negative *)
(* quantity, a movement of any other type a non-negative one.              *)
(***************************************************************************)
C10_SignRule ==
    \A i \in DOMAIN stock_movements :
        IF stock_movements[i].type = "OUT"
        THEN stock_movements[i].quantity < 0
        ELSE stock_movements[i].quantity >= 0

\* the ledger holds an IN movement and an OUT movement
C10_Witness ==
    \E i, j \in DOMAIN stock_movements :
        /\ stock_movements[i].type = "IN" /\ stock_movements[i].quantity > 0
        /\ stock_movements[j].type = "OUT" /\ stock_movements[j].quantity < 0

(***************************************************************************)
(* C9. As claimed: two concurrent Issue calls against the same (vehicle,   *)
(* product) pair never both succeed past the available stock: the total    *)
(* quantity of the issues that succeeded never exceeds the snapshot        *)
(* quantity that existed before them (what the Receive calls put there).   *)
(* The code breaks it: both calls read the row before either commits, both *)
(* pass the check, and the second commit overwrites the first.             *)
(***************************************************************************)
RECURSIVE SumOver(_, _)
SumOver(S, f) ==
    IF S = {} THEN 0
    ELSE LET x == CHOOSE y \in S : TRUE
         IN  f[x] + SumOver(S \ {x}, f)

\* the quantity the sessions were answered to have issued from the pair
IssuedBySessions(plate, product_id) ==
    LET ok == {s \in Sessions :
                  /\ sess[s].pc = "done" /\ sess[s].status = 200
                  /\ car_plate(sess[s].user) = plate
                  /\ sess[s].req.product_id = product_id}
    IN  SumOver(ok, [s \in ok |-> sess[s].req.quantity])

\* the quantity the Receive calls gave the pair before the issues began
ReceivedBefore(plate, product_id) ==
    LET ins == {i \in DOMAIN stock_movements :
                   /\ stock_movements[i].type = "IN"
                   /\ stock_movements[i].car_plate = plate
                   /\ stock_movements[i].product_id = product_id}
    IN  SumOver(ins, [i \in ins |-> stock_movements[i].quantity])

C9_NoOverIssue ==
    \A plate \in Plates, p \in products :
        IssuedBySessions(plate, p) <= ReceivedBefore(plate, p)

(***************************************************************************)
(* C11. As claimed: in every state reached by Receive, Issue, Reset and    *)
(* Receipt Document calls served one at a time, the snapshot quantity of   *)
(* every (vehicle, product) pair (0 when the row is missing) is the sum of *)
(* the signed quantities of the movements of the pair.  It does not hold:  *)
(* a Reset overwrites the rows of the vehicle and records only an IN       *)
(* movement of each new quantity, nothing for what it removed.             *)
(***************************************************************************)
\* the sum of the signed quantities of the movements of a pair
LedgerNet(moves, plate, product_id) ==
    LET of == {i \in DOMAIN moves :
                  moves[i].car_plate = plate /\ moves[i].product_id = product_id}
    IN  SumOver(of, [i \in of |-> moves[i].quantity])

C11_Original ==
    \A plate \in Plates, p \in ProductIds :
        SnapshotQuantity(car_stock, plate, p) = LedgerNet(stock_movements, plate, p)

(***************************************************************************)
(* C11, amended. Every Receive, Issue and Receipt Document call, failed or *)
(* not, changes the snapshot quantity of each (vehicle, product) pair by   *)
(* exactly the sum of the signed quantities of the movements it adds for   *)
(* the pair.  The snapshot is therefore the net effect of the ledger in    *)
(* every state reached by such calls alone, served one at a time.          *)
(***************************************************************************)
C11_SnapshotFollowsLedger ==
    [][resp'.op \in {"receive", "issue", "create_goods_receipt"} =>
          \A plate \in Plates, p \in ProductIds :
              SnapshotQuantity(car_stock', plate, p) - SnapshotQuantity(car_stock, plate, p)
                  = LedgerNet(stock_movements', plate, p)
                        - LedgerNet(stock_movements, plate, p)]_vars

\* a Receipt Document has added to the row an earlier call had made: the row holds
\* what the two movements of the pair sum to
C11_Witness ==
    /\ Succeeded(resp, "create_goods_receipt")
    /\ Len(resp.req.items) = 1
    /\ Len(stock_movements) = 2
    /\ stock_movements[1].timestamp < stock_movements[2].timestamp
    /\ stock_movements[1].car_plate = car_plate(resp.user)
    /\ stock_movements[1].product_id = resp.req.items[1].product_id
    /\ SnapshotQuantity(car_stock, car_plate(resp.user), resp.req.items[1].product_id)
           = stock_movements[1].quantity + resp.req.items[1].quantity
    /\ C11_Original

(***************************************************************************)
(* C12. As claimed: in every reachable state every persisted header of a   *)
(* Receipt Document owns at least one item.  The code breaks it: the       *)
(* request may carry an empty item list (items: List[...] has no minimum   *)
(* length) and the header is committed before the items are looked at, so  *)
(* it also stays when an item names an unknown product.                    *)
(***************************************************************************)
C12_HeaderOwnsItems ==
    \A h \in DOMAIN stock_receive_headers :
        \E i \in DOMAIN stock_receive_items :
            stock_receive_items[i].header_id = stock_receive_headers[h].id

(***************************************************************************)
(* C13. A Receive or an Issue (of a quantity > 0) that names a product id  *)
(* of no catalog entry fails with NotFound (HTTP 404), and the failed call *)
(* leaves the snapshot rows and the ledger exactly as they were.           *)
(***************************************************************************)
C13_UnknownProductNotFound ==
    [][(resp'.op \in {"receive", "issue"} /\ resp'.req.quantity > 0
            /\ resp'.req.product_id \notin products)
          => (resp'.status = 404 /\ UNCHANGED tables)]_vars

\* an Issue of an unknown product was refused on a vehicle that holds stock; the
\* pair has no row
C13_Witness ==
    /\ resp.op = "issue" /\ resp.status = 404 /\ resp.detail = "Produkt nie istnieje"
    /\ resp.req.product_id \notin products
    /\ \E r \in car_stock : r.car_plate = car_plate(resp.user) /\ r.quantity > 0
    /\ StockRows(car_stock, car_plate(resp.user), resp.req.product_id) = {}

(***************************************************************************)
(* C14. A Reset is all-or-nothing: when the call fails (the request is     *)
(* rejected, or the commit is rejected after the rows of the vehicle were  *)
(* deleted and some of the new rows added), the car_stock rows and the     *)
(* ledger are exactly those that existed before the call.                  *)
(***************************************************************************)
C14_ResetAllOrNothing ==
    [][(resp'.op = "update_car_state" /\ resp'.status # 200) =>
          UNCHANGED <<car_stock, stock_movements>>]_vars

\* the commit of a Reset was rejected at its second item, after the delete and a
\* first item that was fine: the vehicle still has the row it had
C14_Witness ==
    /\ resp.op = "update_car_state" /\ resp.status = 500
    /\ Len(resp.req.items) = 2
    /\ resp.req.items[1].product_id \in products /\ resp.req.items[1].quantity > 0
    /\ resp.req.items[2].product_id \notin products
    /\ \E r \in car_stock :
           /\ r.car_plate = car_plate(resp.user)
           /\ r.product_id # resp.req.items[1].product_id
    /\ Cardinality({r \in car_stock : r.car_plate = car_plate(resp.user)}) = 1

(***************************************************************************)
(* C15. As claimed: every OUT movement carries a non-empty place (an Issue *)
(* is accepted only with a non-empty place) and every IN movement has no   *)
(* place.  The code breaks the first part: IssueRequest declares place:    *)
(* str with no minimum length, so an Issue with place "" is accepted.      *)
(***************************************************************************)
C15_OutHasPlace ==
    \A i \in DOMAIN stock_movements :
        /\ stock_movements[i].type = "OUT" =>
               (stock_movements[i].place # None /\ stock_movements[i].place # "")
        /\ stock_movements[i].type = "IN" => stock_movements[i].place = None

(***************************************************************************)
(* C16. As claimed: the History query returns exactly the movements of the *)
(* caller's vehicle that match the filters supplied (product id, movement  *)
(* type), never a row of another vehicle, newest first.  It does not hold: *)
(* a filter supplied as product id 0 or as type "" is not applied, and the *)
(* query returns the rows of every product, of every type.                 *)
(***************************************************************************)
\* the result lists each movement of the set wanted once, with its fields, and no
\* other row, by timestamp descending
ListsExactly(result, wanted) ==
    /\ Len(result) = Cardinality(wanted)
    /\ {result[k].id : k \in DOMAIN result} = wanted
    /\ \A k \in DOMAIN result :
           LET m == stock_movements[result[k].id]
           IN  /\ result[k].product_id = m.product_id
               /\ result[k].quantity = m.quantity
               /\ result[k].type = m.type
               /\ result[k].place = m.place
               /\ result[k].timestamp = m.timestamp
    /\ \A k, l \in DOMAIN result :
           k < l => result[k].timestamp >= result[l].timestamp

\* the movement is in the window of dates asked for
InDates(m, req) ==
    /\ (req.date_from # 0 => m.timestamp >= req.date_from)
    /\ (req.date_to # 0 => m.timestamp <= req.date_to)

C16_Original ==
    resp.op = "history" =>
        ListsExactly(resp.result,
            {i \in DOMAIN stock_movements :
                LET m == stock_movements[i]
                IN  /\ m.car_plate = car_plate(resp.user)
                    /\ (resp.req.product_id # <<>> => m.product_id = resp.req.product_id[1])
                    /\ (resp.req.type # <<>> => m.type = resp.req.type[1])
                    /\ InDates(m, resp.req)})

(***************************************************************************)
(* C16, amended. The History query returns exactly the movements of the    *)
(* caller's vehicle that match the filters supplied (product id, movement  *)
(* type), a filter supplied as product id 0 or as the empty type counting  *)
(* as not supplied; never a row of another vehicle; newest first.  With    *)
(* type = OUT after one Issue that succeeded and one that failed it        *)
(* returns exactly the one issue that succeeded.                           *)
(***************************************************************************)
C16_HistoryReturnsMatches ==
    resp.op = "history" =>
        ListsExactly(resp.result,
            {i \in DOMAIN stock_movements :
                LET m == stock_movements[i]
                IN  /\ m.car_plate = car_plate(resp.user)
                    /\ ((resp.req.product_id # <<>> /\ resp.req.product_id # <<0>>)
                            => m.product_id = resp.req.product_id[1])
                    /\ ((resp.req.type # <<>> /\ resp.req.type # <<"">>)
                            => m.type = resp.req.type[1])
                    /\ InDates(m, resp.req)})

\* the ledger holds a Receive and an Issue of the vehicle; History with type = OUT
\* and no other filter has returned the one issue
C16_Witness ==
    /\ resp.op = "history" /\ resp.status = 200
    /\ resp.req.type = <<"OUT">> /\ resp.req.product_id = <<>>
    /\ resp.req.date_from = 0 /\ resp.req.date_to = 0
    /\ Len(stock_movements) = 2
    /\ \A i \in DOMAIN stock_movements :
           stock_movements[i].car_plate = car_plate(resp.user)
    /\ stock_movements[1].type = "IN" /\ stock_movements[2].type = "OUT"
    /\ Len(resp.result) = 1
    /\ resp.result[1].id = 2 /\ resp.result[1].quantity < 0

(***************************************************************************)
(* C17. Vehicle isolation: a Receive, Issue, Reset or Receipt Document     *)
(* call made by a user of vehicle A leaves every car_stock row of every    *)
(* other vehicle as it was, and every movement it adds carries plate A.    *)
(***************************************************************************)
\* the car_stock rows of the vehicles other than plate
OtherVehicles(table, plate) == {r \in table : r.car_plate # plate}

C17_VehicleIsolation ==
    [][resp'.op \in {"receive", "issue", "update_car_state", "create_goods_receipt"} =>
          LET plate == car_plate(resp'.user)
          IN  /\ OtherVehicles(car_stock', plate) = OtherVehicles(car_stock, plate)
              /\ \A i \in DOMAIN stock_movements' :
                     i > Len(stock_movements) => stock_movements'[i].car_plate = plate]_vars

\* a Reset of one vehicle has succeeded while another vehicle held a row: the row
\* is still there and the movement added carries the plate of the caller
C17_Witness ==
    /\ Succeeded(resp, "update_car_state")
    /\ Len(stock_movements) = 2
    /\ stock_movements[1].car_plate # car_plate(resp.user)
    /\ stock_movements[2].car_plate = car_plate(resp.user)
    /\ stock_movements[1].timestamp < stock_movements[2].timestamp
    /\ \E r \in car_stock :
           /\ r.car_plate = stock_movements[1].car_plate
           /\ r.product_id = stock_movements[1].product_id
           /\ r.quantity = stock_movements[1].quantity

====
